---- MODULE Spec2Model ----
(***************************************************************************)
(* Model of the model registry store (useModelStore.ts): the list of       *)
(* model profiles, the active id, and the four asynchronous operations     *)
(* addModel, updateModel, setActive and removeModel, each of which may     *)
(* await one call of the key service before it writes the store.  The      *)
(* store starts from the built-in default or from the snapshot that the    *)
(* persist middleware restores.                                            *)
(*                                                                         *)
(* A profile is a record whose set of fields varies (apiKey and isCustom   *)
(* are optional), so JavaScript objects are modelled as functions from     *)
(* field names to values and object spread as function override.           *)
(***************************************************************************)
EXTENDS Integers, Sequences, FiniteSets, TLC

VARIABLES
  models,    \* state.models: sequence of stored profiles
  activeId,  \* state.activeId
  creds,     \* key service: provider names that hold a stored key
  proc,      \* per invocation slot: idle, or suspended on a key-service call
  last,      \* record of the most recently settled invocation (history)
  nops       \* number of invocations made so far

vars == <<models, activeId, creds, proc, last, nops>>

(* ------------------------------ bounds --------------------------------- *)
MaxOps == 3

NumProcs == 2

\* invocations made in the runs with overlapping invocations
MaxConcOps == 2

Procs == 1..NumProcs

(* ------------------------- JavaScript helpers --------------------------- *)
\* 'k' in r
Has(r, k) == k \in DOMAIN r

\* { ...a, ...b }
Spread(a, b) ==
  [k \in DOMAIN a \cup DOMAIN b |-> IF k \in DOMAIN b THEN b[k] ELSE a[k]]

\* const { k, ...rest } = r
Omit(r, k) == [f \in DOMAIN r \ {k} |-> r[f]]

\* truthiness of a string value
Truthy(s) == s # ""

\* r.k is a truthy string (absent field reads undefined, which is falsy)
TruthyField(r, k) == Has(r, k) /\ Truthy(r[k])

\* index of the first entry with the given id, 0 when none (Array.find)
find(ms, id) ==
  IF \E i \in 1..Len(ms) : ms[i].id = id
  THEN CHOOSE i \in 1..Len(ms) :
         /\ ms[i].id = id
         /\ \A j \in 1..(i - 1) : ms[j].id # id
  ELSE 0

\* ms.filter(m => m.id !== id)
filterOut(ms, id) == SelectSeq(ms, LAMBDA m : m.id # id)

\* variant of mapMerge that merges the updates into every entry
mapMergeAll(ms, id, updates) ==
  [i \in 1..Len(ms) |-> Spread(ms[i], updates)]

\* ms.map(m => m.id === id ? { ...m, ...updates } : m)
mapMerge(ms, id, updates) ==
  [i \in 1..Len(ms) |-> IF ms[i].id = id THEN Spread(ms[i], updates) ELSE ms[i]]

(* ------------------------------ constants ------------------------------- *)
DEFAULT_MODELS ==
  << [id |-> "default", name |-> "default", provider |-> "default",
      requiresApiKey |-> FALSE] >>

(* ------------------------------- inputs --------------------------------- *)
Ids == {"default", "gpt", "claude"}

ApiKeys == {"", "sk"}

\* S extended with every record of S that also carries field k with a value of vs
WithOptional(S, k, vs) ==
  S \cup { Spread(r, [f \in {k} |-> v]) : r \in S, v \in vs }

\* the (id, provider) pairs of the profiles that callers add: two custom
\* profiles of distinct providers, a custom profile of provider "default",
\* one without provider, and one that reuses the id of the built-in profile
IdProviders ==
  { <<"gpt", "openai">>, <<"gpt", "default">>, <<"gpt", "">>,
    <<"claude", "anthropic">>, <<"default", "openai">> }

AddBase ==
  { [id |-> ip[1], name |-> "n", provider |-> ip[2], requiresApiKey |-> TRUE] :
      ip \in IdProviders }

\* arguments of addModel: a full Model, apiKey and isCustom optional
AddInputs ==
  WithOptional(AddBase, "apiKey", ApiKeys)
    \cup { Spread(r, [isCustom |-> FALSE]) : r \in AddBase }

\* arguments of updateModel: a Partial<Model>
UpdateInputs ==
  WithOptional(
    WithOptional({ [f \in {} |-> ""] }, "provider", {"", "openai"}),
    "apiKey", ApiKeys)
    \cup { [id |-> "gpt"] }

(* --------------------------- key service calls -------------------------- *)
storeCall(provider, key) ==
  [m |-> "storeAPIKey", provider_name |-> provider, api_key |-> key]

deleteCall(provider) ==
  [m |-> "deleteAPIKey", provider_name |-> provider]

\* effect of a successful call on the key service
storeAPIKey(cs, provider) == cs \cup {provider}

deleteAPIKey(cs, provider) == cs \ {provider}

\* what a failing call rejects with
CredentialErrors == {"unreachable backend", "rejected write"}

credEffect(cs, call) ==
  IF call.m = "storeAPIKey" THEN storeAPIKey(cs, call.provider_name)
  ELSE deleteAPIKey(cs, call.provider_name)

(* ------------------------ the store writes, set() ----------------------- *)
\* each takes the state at the time of the write and yields the new state
State == [models |-> models, activeId |-> activeId]

\* variant of addModelSet in which the input's own isCustom wins
addModelSetKeepsFlag(state, model) ==
  LET safeModel == Omit(model, "apiKey")
  IN [models   |-> Append(state.models, Spread([isCustom |-> TRUE], safeModel)),
      activeId |-> model.id]

addModelSet(state, model) ==
  LET safeModel == Omit(model, "apiKey")
  IN [models   |-> Append(state.models, Spread(safeModel, [isCustom |-> TRUE])),
      activeId |-> model.id]

updateModelSet(state, id, updates) ==
  [models   |-> mapMerge(state.models, id, updates),
   activeId |-> state.activeId]

\* variant of setActiveCascadeSet that looks both entries up again at the
\* time of the write and gives up when either is gone
setActiveCascadeSetRevalidated(state, previousId, id) ==
  IF state.activeId = previousId
       /\ find(state.models, id) # 0
       /\ find(state.models, previousId) # 0
  THEN [models   |-> SelectSeq(state.models, LAMBDA m : m.id # previousId),
        activeId |-> id]
  ELSE state

setActiveCascadeSet(state, previousId, id) ==
  [models   |-> filterOut(state.models, previousId),
   activeId |-> id]

setActiveSet(state, id) ==
  [models |-> state.models, activeId |-> id]

\* variant of removeModelSet that falls back only when an entry was removed
removeModelSetIfFound(state, id) ==
  [models   |-> SelectSeq(state.models, LAMBDA m : m.id # id),
   activeId |-> IF state.activeId = id /\ find(state.models, id) # 0
                THEN (IF Len(state.models) > 0 /\ Truthy(state.models[1].id)
                      THEN state.models[1].id ELSE "")
                ELSE state.activeId]

removeModelSet(state, id) ==
  [models   |-> filterOut(state.models, id),
   activeId |-> IF state.activeId = id
                THEN (IF Len(state.models) > 0 /\ Truthy(state.models[1].id)
                      THEN state.models[1].id ELSE "")
                ELSE state.activeId]

(* --------------------- which key-service call, if any ------------------- *)
NoCall == << >>

addModelCalls(model) ==
  IF TruthyField(model, "apiKey") /\ TruthyField(model, "provider")
  THEN << storeCall(model.provider, model.apiKey) >>
  ELSE NoCall

\* variant of updateModelCalls triggered by a truthy apiKey, not by its presence
updateModelCallsTruthy(updates) ==
  IF TruthyField(updates, "apiKey") /\ TruthyField(updates, "provider")
  THEN << storeCall(updates.provider, updates.apiKey) >>
  ELSE NoCall

updateModelCalls(updates) ==
  IF Has(updates, "apiKey") /\ TruthyField(updates, "provider")
  THEN IF Truthy(updates.apiKey)
       THEN << storeCall(updates.provider, updates.apiKey) >>
       ELSE << deleteCall(updates.provider) >>
  ELSE NoCall

\* variant of setActiveCascades that ignores the provider of the new model
setActiveCascadesAny(state, id) ==
  LET previousModel == find(state.models, state.activeId)
      newModel      == find(state.models, id)
  IN /\ newModel # 0
     /\ previousModel # 0
     /\ Has(state.models[previousModel], "isCustom")
     /\ state.models[previousModel].isCustom
     /\ TruthyField(state.models[previousModel], "provider")

\* the cascade condition of setActive
setActiveCascades(state, id) ==
  LET previousModel == find(state.models, state.activeId)
      newModel      == find(state.models, id)
  IN /\ newModel # 0
     /\ Has(state.models[newModel], "provider")
     /\ state.models[newModel].provider = "default"
     /\ previousModel # 0
     /\ Has(state.models[previousModel], "isCustom")
     /\ state.models[previousModel].isCustom
     /\ TruthyField(state.models[previousModel], "provider")

setActiveCalls(state, id) ==
  IF setActiveCascades(state, id)
  THEN << deleteCall(state.models[find(state.models, state.activeId)].provider) >>
  ELSE NoCall

removeModelCalls(state, id) ==
  LET model == find(state.models, id)
  IN IF model # 0 /\ TruthyField(state.models[model], "provider")
     THEN << deleteCall(state.models[model].provider) >>
     ELSE NoCall

(* ---------------------------- invocations ------------------------------- *)
NoArg == [none |-> TRUE]

Idle ==
  [pc |-> "idle", op |-> "none", id |-> "", arg |-> NoArg, previousId |-> "",
   calls |-> NoCall, writes |-> 0, invModels |-> << >>, invActiveId |-> ""]

\* the invocation runs to completion without suspending: one write, resolved
Finish(p, op, id, arg, new) ==
  /\ models' = new.models
  /\ activeId' = new.activeId
  /\ last' = [op |-> op, id |-> id, arg |-> arg, calls |-> NoCall,
              callResult |-> "none", outcome |-> "resolved",
              error |-> "none", writes |-> 1,
              preModels |-> models, preActiveId |-> activeId,
              preCreds |-> creds,
              invModels |-> models, invActiveId |-> activeId]
  /\ nops' = nops + 1
  /\ UNCHANGED <<creds, proc>>

\* the invocation issues a key-service call and suspends on it: no write yet
Suspend(p, op, id, arg, previousId, calls) ==
  /\ proc' = [proc EXCEPT ![p] =
                [pc |-> "awaiting", op |-> op, id |-> id, arg |-> arg,
                 previousId |-> previousId, calls |-> calls, writes |-> 0,
                 invModels |-> models, invActiveId |-> activeId]]
  /\ nops' = nops + 1
  /\ UNCHANGED <<models, activeId, creds, last>>

\* variant of addModel that writes the store before awaiting storeAPIKey
addModelWritesFirst(p, model) ==
  /\ proc[p].pc = "idle"
  /\ nops < MaxOps
  /\ IF addModelCalls(model) # NoCall
     THEN /\ models' = addModelSet(State, model).models
          /\ activeId' = addModelSet(State, model).activeId
          /\ proc' = [proc EXCEPT ![p] =
                        [pc |-> "awaiting", op |-> "addModel", id |-> model.id,
                         arg |-> model, previousId |-> "",
                         calls |-> addModelCalls(model), writes |-> 1,
                         invModels |-> models, invActiveId |-> activeId]]
          /\ nops' = nops + 1
          /\ UNCHANGED <<creds, last>>
     ELSE Finish(p, "addModel", model.id, model, addModelSet(State, model))

addModel(p, model) ==
  /\ proc[p].pc = "idle"
  /\ nops < MaxOps
  /\ IF addModelCalls(model) # NoCall
     THEN Suspend(p, "addModel", model.id, model, "", addModelCalls(model))
     ELSE Finish(p, "addModel", model.id, model, addModelSet(State, model))

updateModel(p, id, updates) ==
  /\ proc[p].pc = "idle"
  /\ nops < MaxOps
  /\ IF updateModelCalls(updates) # NoCall
     THEN Suspend(p, "updateModel", id, updates, "", updateModelCalls(updates))
     ELSE Finish(p, "updateModel", id, updates, updateModelSet(State, id, updates))

setActive(p, id) ==
  /\ proc[p].pc = "idle"
  /\ nops < MaxOps
  /\ IF setActiveCalls(State, id) # NoCall
     THEN Suspend(p, "setActive", id, NoArg,
                  models[find(models, activeId)].id, setActiveCalls(State, id))
     ELSE Finish(p, "setActive", id, NoArg, setActiveSet(State, id))

removeModel(p, id) ==
  /\ proc[p].pc = "idle"
  /\ nops < MaxOps
  /\ IF removeModelCalls(State, id) # NoCall
     THEN Suspend(p, "removeModel", id, NoArg, "", removeModelCalls(State, id))
     ELSE Finish(p, "removeModel", id, NoArg, removeModelSet(State, id))

\* variant of continuation that computes the write from the state read when
\* the operation was invoked
continuationFromSnapshot(state, pr) ==
  LET snapshot == [models |-> pr.invModels, activeId |-> pr.invActiveId]
  IN CASE pr.op = "addModel"    -> addModelSet(snapshot, pr.arg)
       [] pr.op = "updateModel" -> updateModelSet(snapshot, pr.id, pr.arg)
       [] pr.op = "setActive"   -> setActiveCascadeSet(state, pr.previousId, pr.id)
       [] pr.op = "removeModel" -> removeModelSet(snapshot, pr.id)

\* the write an invocation performs once its awaited call has succeeded
continuation(state, pr) ==
  CASE pr.op = "addModel"    -> addModelSet(state, pr.arg)
    [] pr.op = "updateModel" -> updateModelSet(state, pr.id, pr.arg)
    [] pr.op = "setActive"   -> setActiveCascadeSet(state, pr.previousId, pr.id)
    [] pr.op = "removeModel" -> removeModelSet(state, pr.id)

\* the awaited call succeeds: the invocation resumes, writes and resolves
credResolve(p) ==
  /\ proc[p].pc = "awaiting"
  /\ LET new == continuation(State, proc[p])
     IN /\ models' = new.models
        /\ activeId' = new.activeId
  /\ creds' = credEffect(creds, proc[p].calls[1])
  /\ last' = [op |-> proc[p].op, id |-> proc[p].id, arg |-> proc[p].arg,
              calls |-> proc[p].calls, callResult |-> "success",
              outcome |-> "resolved", error |-> "none",
              writes |-> proc[p].writes + 1,
              preModels |-> models, preActiveId |-> activeId,
              preCreds |-> creds,
              invModels |-> proc[p].invModels,
              invActiveId |-> proc[p].invActiveId]
  /\ proc' = [proc EXCEPT ![p] = Idle]
  /\ UNCHANGED nops

\* variant of credReject that runs the continuation despite the rejection
credRejectCommits(p) ==
  /\ proc[p].pc = "awaiting"
  /\ LET new == continuation(State, proc[p])
     IN /\ models' = new.models
        /\ activeId' = new.activeId
  /\ \E e \in CredentialErrors :
       last' = [op |-> proc[p].op, id |-> proc[p].id, arg |-> proc[p].arg,
              calls |-> proc[p].calls, callResult |-> e,
              outcome |-> "rejected", error |-> e,
              writes |-> proc[p].writes + 1,
              preModels |-> models, preActiveId |-> activeId,
              preCreds |-> creds,
              invModels |-> proc[p].invModels,
              invActiveId |-> proc[p].invActiveId]
  /\ proc' = [proc EXCEPT ![p] = Idle]
  /\ UNCHANGED <<creds, nops>>

\* variant of credReject that catches the rejection and throws its own error
credRejectWraps(p) ==
  /\ proc[p].pc = "awaiting"
  /\ \E e \in CredentialErrors :
       last' = [op |-> proc[p].op, id |-> proc[p].id, arg |-> proc[p].arg,
              calls |-> proc[p].calls, callResult |-> e,
              outcome |-> "rejected", error |-> "operation failed",
              writes |-> proc[p].writes,
              preModels |-> models, preActiveId |-> activeId,
              preCreds |-> creds,
              invModels |-> proc[p].invModels,
              invActiveId |-> proc[p].invActiveId]
  /\ proc' = [proc EXCEPT ![p] = Idle]
  /\ UNCHANGED <<models, activeId, creds, nops>>

\* variant of credReject that swallows the rejection and never settles
credRejectHangs(p) ==
  /\ proc[p].pc = "awaiting"
  /\ proc' = [proc EXCEPT ![p].pc = "hung"]
  /\ UNCHANGED <<models, activeId, creds, last, nops>>

\* the awaited call rejects: the await throws, nothing after it runs
credReject(p) ==
  /\ proc[p].pc = "awaiting"
  /\ \E e \in CredentialErrors :
       last' = [op |-> proc[p].op, id |-> proc[p].id, arg |-> proc[p].arg,
              calls |-> proc[p].calls, callResult |-> e,
              outcome |-> "rejected", error |-> e,
              writes |-> proc[p].writes,
              preModels |-> models, preActiveId |-> activeId,
              preCreds |-> creds,
              invModels |-> proc[p].invModels,
              invActiveId |-> proc[p].invActiveId]
  /\ proc' = [proc EXCEPT ![p] = Idle]
  /\ UNCHANGED <<models, activeId, creds, nops>>

(* ---------------------------- specifications ---------------------------- *)
NoLast ==
  [op |-> "none", id |-> "", arg |-> NoArg, calls |-> NoCall,
   callResult |-> "none", outcome |-> "none", error |-> "none", writes |-> 0,
   preModels |-> << >>, preActiveId |-> "", preCreds |-> {},
   invModels |-> << >>, invActiveId |-> ""]

\* what persist() finds under 'model-storage' when the store is created:
\* nothing on a first start, else the models and activeId an earlier session
\* left there, the key service still holding the keys that session stored
FirstStart ==
  [models |-> DEFAULT_MODELS, activeId |-> DEFAULT_MODELS[1].id, creds |-> {}]

RestoredSnapshots ==
  { [models   |-> DEFAULT_MODELS \o
                  << [id |-> "gpt", name |-> "GPT", provider |-> "openai",
                      requiresApiKey |-> TRUE, isCustom |-> TRUE] >>,
     activeId |-> "gpt",
     creds    |-> {"openai"}],
    [models   |-> DEFAULT_MODELS \o
                  << [id |-> "gpt", name |-> "GPT", provider |-> "openai",
                      requiresApiKey |-> TRUE, isCustom |-> TRUE],
                     [id |-> "claude", name |-> "n", provider |-> "anthropic",
                      requiresApiKey |-> TRUE, isCustom |-> TRUE] >>,
     activeId |-> "default",
     creds    |-> {"openai", "anthropic"}] }

Init ==
  /\ \E start \in {FirstStart} \cup RestoredSnapshots :
       /\ models = start.models
       /\ activeId = start.activeId
       /\ creds = start.creds
  /\ proc = [p \in Procs |-> Idle]
  /\ last = NoLast
  /\ nops = 0

\* one caller that awaits each operation before invoking the next
Next ==
  \/ \E model \in AddInputs : addModel(1, model)
  \/ \E id \in Ids, updates \in UpdateInputs : updateModel(1, id, updates)
  \/ \E id \in Ids : setActive(1, id)
  \/ \E id \in Ids : removeModel(1, id)
  \/ credResolve(1)
  \/ credReject(1)

Spec == Init /\ [][Next]_vars

\* callers that invoke operations while earlier ones are still suspended;
\* a new invocation takes the lowest free slot
FreeSlot(p) ==
  /\ proc[p].pc = "idle"
  /\ \A q \in Procs : q < p => proc[q].pc # "idle"

CanInvoke(p) == FreeSlot(p) /\ nops < MaxConcOps

NextConc ==
  \E p \in Procs :
    \/ CanInvoke(p) /\ \E model \in AddInputs : addModel(p, model)
    \/ CanInvoke(p) /\ \E id \in Ids, updates \in UpdateInputs : updateModel(p, id, updates)
    \/ CanInvoke(p) /\ \E id \in Ids : setActive(p, id)
    \/ CanInvoke(p) /\ \E id \in Ids : removeModel(p, id)
    \/ credResolve(p)
    \/ credReject(p)

SpecConc == Init /\ [][NextConc]_vars

\* every call issued to the key service eventually returns, with success or
\* with a rejection
CallsReturn == \A p \in Procs : WF_vars(credResolve(p) \/ credReject(p))

SpecLive == Init /\ [][NextConc]_vars /\ CallsReturn

TypeOK == nops \in 0..MaxOps

(* ------------------------------- claims --------------------------------- *)
\* ids of the entries of a profile list
IdsOf(ms) == { ms[i].id : i \in 1..Len(ms) }

\* C1 (fail-closed): when the key-service call issued by an operation
\* rejects, the operation writes nothing: models and activeId are what they
\* were when the operation was invoked.
FailClosed ==
  last.outcome = "rejected" =>
    /\ last.writes = 0
    /\ models = last.invModels
    /\ activeId = last.invActiveId

\* a setActive cascade whose deleteAPIKey rejected, the custom profile it
\* would have removed still being the active one
FailClosedWitness ==
  /\ last.outcome = "rejected"
  /\ last.op = "setActive"
  /\ Len(last.calls) = 1
  /\ Len(models) > 1
  /\ activeId # last.id

\* C2 (secret exclusion): no entry of models has an apiKey field.
SecretExclusion ==
  \A i \in 1..Len(models) : ~Has(models[i], "apiKey")

\* C3 (active-id validity): activeId is the id of some entry of models, or
\* is "" when models is empty.
ActiveIdValid ==
  \/ activeId \in IdsOf(models)
  \/ Len(models) = 0 /\ activeId = ""

\* C4 (id uniqueness): no two entries of models have the same id.
IdsUnique ==
  \A i, j \in 1..Len(models) : models[i].id = models[j].id => i = j

\* C5 (fallback on removal): after a successful removeModel(id) of the
\* active id, models is the previous list without the entry id, and activeId
\* is the id of the first remaining entry, or "" if none remains.
FallbackOnRemoval ==
  (/\ last.op = "removeModel"
   /\ last.outcome = "resolved"
   /\ last.preActiveId = last.id)
  =>
    /\ models = SelectSeq(last.preModels, LAMBDA m : m.id # last.id)
    /\ activeId = IF Len(models) > 0 THEN models[1].id ELSE ""

\* s without its i-th element
RemoveAt(s, i) == SubSeq(s, 1, i - 1) \o SubSeq(s, i + 1, Len(s))

\* the entries setActive(last.id) looked up when it was invoked
LastNew == find(last.invModels, last.id)

LastPrevious == find(last.invModels, last.invActiveId)

IsCustom(m) == Has(m, "isCustom") /\ m.isCustom

\* C6 (cascade correctness): setActive(id), called where the entry matching
\* id has provider "default" and the entry matching activeId is custom with a
\* non-empty provider, calls deleteAPIKey(previous.provider) and nothing
\* else, and on success leaves models without the previous entry, all other
\* entries unchanged and in order, and activeId = id.
CascadeCorrect ==
  (/\ last.op = "setActive"
   /\ LastNew # 0
   /\ LastPrevious # 0
   /\ last.invModels[LastNew].provider = "default"
   /\ IsCustom(last.invModels[LastPrevious])
   /\ TruthyField(last.invModels[LastPrevious], "provider"))
  =>
    /\ last.calls = << deleteCall(last.invModels[LastPrevious].provider) >>
    /\ last.outcome = "resolved" =>
         /\ models = RemoveAt(last.invModels, LastPrevious)
         /\ activeId = last.id

\* both profiles looked up by the last setActive are custom, of different
\* providers and different ids
SwitchBetweenCustoms ==
  /\ last.op = "setActive"
  /\ LastNew # 0
  /\ LastPrevious # 0
  /\ LastNew # LastPrevious
  /\ last.id # last.invActiveId
  /\ IsCustom(last.invModels[LastNew])
  /\ IsCustom(last.invModels[LastPrevious])
  /\ last.invModels[LastNew].provider # last.invModels[LastPrevious].provider

NoCascade ==
  /\ last.calls = NoCall
  /\ models = last.invModels
  /\ activeId = last.id

\* C7 as stated (non-cascade): switching the active profile between two
\* custom profiles of different providers calls no key-service method and
\* changes nothing but activeId.
NonCascade == SwitchBetweenCustoms => NoCascade

\* C7 as amended: the same, provided the profile switched to does not have
\* provider "default".
NonCascadeToNonDefault ==
  (SwitchBetweenCustoms /\ last.invModels[LastNew].provider # "default")
  => NoCascade

\* a switch from a custom profile of one named provider to a custom profile of
\* another named provider has settled
NonCascadeWitness ==
  /\ SwitchBetweenCustoms
  /\ last.outcome = "resolved"
  /\ TruthyField(last.invModels[LastPrevious], "provider")
  /\ TruthyField(last.invModels[LastNew], "provider")
  /\ last.invModels[LastNew].provider # "default"
  /\ activeId = last.id

\* C8 (addModel effect): a successful addModel appends exactly one entry,
\* the existing entries unchanged and in order; the new entry has isCustom
\* true whatever the input carried; activeId is the added id; storeAPIKey is
\* called once iff apiKey is truthy and provider is set, nothing otherwise.
AddModelEffect ==
  last.op = "addModel" =>
    /\ last.outcome = "resolved" =>
         /\ Len(models) = Len(last.preModels) + 1
         /\ SubSeq(models, 1, Len(last.preModels)) = last.preModels
         /\ IsCustom(models[Len(models)])
         /\ models[Len(models)].id = last.arg.id
         /\ activeId = last.arg.id
    /\ IF TruthyField(last.arg, "apiKey") /\ TruthyField(last.arg, "provider")
       THEN last.calls = << storeCall(last.arg.provider, last.arg.apiKey) >>
       ELSE last.calls = NoCall

\* an addModel whose input carried isCustom = false resolved, and after it
\* one that stored a key
AddModelWitness ==
  /\ last.op = "addModel"
  /\ last.outcome = "resolved"
  /\ Len(last.calls) = 1
  /\ Len(models) = 3
  /\ Has(last.preModels[2], "isCustom")
  /\ activeId = last.arg.id

\* C9 (updateModel credential trigger): updateModel issues a key-service
\* call iff updates has the apiKey key and updates.provider is set; then
\* exactly one, storeAPIKey for a truthy apiKey and deleteAPIKey for a falsy
\* one, whether or not an entry matches id.
UpdateModelTrigger ==
  last.op = "updateModel" =>
    IF Has(last.arg, "apiKey") /\ TruthyField(last.arg, "provider")
    THEN IF last.arg.apiKey # ""
         THEN last.calls = << storeCall(last.arg.provider, last.arg.apiKey) >>
         ELSE last.calls = << deleteCall(last.arg.provider) >>
    ELSE last.calls = NoCall

\* an updateModel with an empty apiKey and a provider, for an id that matches
\* no entry, has issued its deleteAPIKey
UpdateModelTriggerWitness ==
  /\ last.op = "updateModel"
  /\ Has(last.arg, "apiKey")
  /\ last.arg.apiKey = ""
  /\ Len(last.calls) = 1
  /\ last.id \notin IdsOf(last.invModels)

\* C10 (credential before commit): an invocation issues at most one
\* key-service call and writes at most once; a suspended invocation has not
\* written, and the step that suspends it leaves models and activeId alone;
\* when it issued a call and wrote, the call had returned success.
CredentialBeforeCommit ==
  /\ [](\A p \in Procs :
          proc[p].pc = "awaiting" =>
            (Len(proc[p].calls) = 1 /\ proc[p].writes = 0))
  /\ [](Len(last.calls) <= 1 /\ last.writes <= 1)
  /\ []((Len(last.calls) = 1 /\ last.writes = 1) => last.outcome = "resolved")
  /\ [][\A p \in Procs :
          (proc[p].pc = "idle" /\ proc'[p].pc = "awaiting")
            => (models' = models /\ activeId' = activeId)]_vars

\* two invocations were suspended at once; the first has written after its
\* call succeeded and the second is still suspended
CredentialBeforeCommitWitness ==
  /\ proc[1].pc = "idle"
  /\ proc[2].pc = "awaiting"
  /\ Len(last.calls) = 1
  /\ last.writes = 1
  /\ last.outcome = "resolved"
  /\ models # last.preModels

\* C11 (self-switch is a no-op): setActive(id) with id equal to the current
\* activeId calls no key-service method, removes no entry and leaves activeId
\* equal to id.
SelfSwitchNoOp ==
  (last.op = "setActive" /\ last.id = last.invActiveId)
  =>
    /\ last.calls = NoCall
    /\ models = last.invModels
    /\ activeId = last.id

\* C12 (stale snapshot under interleaving): a setActive that was suspended
\* on deleteAPIKey commits what it decided when it was invoked, the removal of
\* the entry that was active then and activeId = id, whatever the store holds
\* at the time of the write.
StaleSnapshotCommit ==
  (last.op = "setActive" /\ Len(last.calls) = 1 /\ last.outcome = "resolved")
  =>
    /\ models = SelectSeq(last.preModels, LAMBDA m : m.id # last.invActiveId)
    /\ activeId = last.id

\* another operation committed while setActive was suspended and removed the
\* entry setActive was switching to: activeId now names an entry that is gone
StaleSnapshotWitness ==
  /\ last.op = "setActive"
  /\ Len(last.calls) = 1
  /\ last.outcome = "resolved"
  /\ last.preModels # last.invModels
  /\ last.id \in IdsOf(last.invModels)
  /\ last.id \notin IdsOf(last.preModels)
  /\ activeId = last.id
  /\ activeId \notin IdsOf(models)

\* C13 (settlement): an invocation is pending only while its key-service
\* call is pending; if every issued call eventually returns, every pending
\* invocation eventually settles; an operation that needs no call writes and
\* resolves at once, without waiting on the key service.
Settlement ==
  /\ [](\A p \in Procs :
          proc[p].pc # "idle" =>
            (proc[p].pc = "awaiting" /\ Len(proc[p].calls) = 1))
  /\ \A p \in Procs : (proc[p].pc # "idle") ~> (proc[p].pc = "idle")
  /\ []((last.op # "none" /\ last.calls = NoCall) =>
          (/\ last.callResult = "none"
           /\ last.outcome = "resolved"
           /\ last.writes = 1))

\* two invocations were pending at once and one of them has settled by
\* rejecting while the other is still pending
SettlementWitness ==
  /\ last.outcome = "rejected"
  /\ Len(last.calls) = 1
  /\ proc[1].pc = "idle"
  /\ proc[2].pc = "awaiting"

\* C14 (updateModel frame): a successful updateModel(id, updates) leaves
\* activeId, the length and the order of models unchanged, and every entry
\* whose id differs from id unchanged; when no entry matches id, models and
\* activeId are entirely unchanged and the operation resolves.
UpdateModelFrame ==
  last.op = "updateModel" =>
    /\ last.outcome = "resolved" =>
         /\ activeId = last.preActiveId
         /\ Len(models) = Len(last.preModels)
         /\ \A i \in 1..Len(last.preModels) :
              last.preModels[i].id # last.id => models[i] = last.preModels[i]
    /\ last.id \notin IdsOf(last.preModels) =>
         (last.outcome = "resolved" \/ last.callResult \in CredentialErrors)
    /\ (last.id \notin IdsOf(last.preModels) /\ last.outcome = "resolved")
         => (models = last.preModels /\ activeId = last.preActiveId)

\* an updateModel carrying a provider resolved in a list of three entries of
\* which it changed one and left two alone
UpdateModelFrameWitness ==
  /\ last.op = "updateModel"
  /\ last.outcome = "resolved"
  /\ Has(last.arg, "provider")
  /\ Len(models) = 3
  /\ models # last.preModels
  /\ Cardinality({ i \in 1..3 : models[i] = last.preModels[i] }) = 2

\* C15 (removeModel with an unmatched id): when no entry has the given id,
\* removeModel calls no key-service method and leaves models unchanged;
\* activeId is unchanged unless it equals id, and then it becomes the id of
\* the first entry of models, or "" if models is empty.
RemoveUnmatched ==
  (last.op = "removeModel" /\ last.id \notin IdsOf(last.invModels))
  =>
    /\ last.calls = NoCall
    /\ last.outcome = "resolved"
    /\ models = last.invModels
    /\ activeId = IF last.invActiveId = last.id
                  THEN (IF Len(models) > 0 THEN models[1].id ELSE "")
                  ELSE last.invActiveId

\* activeId named no entry, removeModel was called with that id, and activeId
\* moved to the first entry although nothing was removed
RemoveUnmatchedWitness ==
  /\ last.op = "removeModel"
  /\ last.id \notin IdsOf(last.invModels)
  /\ last.invActiveId = last.id
  /\ Len(models) > 0
  /\ activeId = models[1].id
  /\ activeId # last.id

\* C16 (error propagation): when the key-service call an operation issued
\* rejects, the operation ends rejected with that same error, never resolved
\* and never with another error, after that one call only (no retry); and an
\* operation rejects for no other reason.
ErrorPropagation ==
  /\ last.callResult \in CredentialErrors =>
       /\ last.outcome = "rejected"
       /\ last.error = last.callResult
       /\ Len(last.calls) = 1
  /\ last.outcome = "rejected" => last.callResult \in CredentialErrors
  /\ last.outcome = "resolved" => last.error = "none"

\* the deleteAPIKey of a removeModel rejected with "rejected write" and
\* removeModel rejected with it, the entry still in place
ErrorPropagationWitness ==
  /\ last.op = "removeModel"
  /\ last.callResult = "rejected write"
  /\ last.error = "rejected write"
  /\ last.id \in IdsOf(models)

\* providers of the entries of a profile list
ProvidersOf(ms) ==
  { ms[i].provider : i \in { j \in 1..Len(ms) : Has(ms[j], "provider") } }

\* C17 (no orphaned secret): when no operation is in flight, every provider
\* that holds a stored key in the key service is the provider of at least
\* one entry of models.
NoOrphanedSecret ==
  (\A p \in Procs : proc[p].pc = "idle") => creds \subseteq ProvidersOf(models)

\* C18 (shared-provider safety): a successful removeModel or setActive
\* cascade does not delete the stored key of a provider that an entry
\* remaining in models still has.
SharedProviderSafe ==
  (/\ last.op \in {"removeModel", "setActive"}
   /\ last.outcome = "resolved"
   /\ \A p \in Procs : proc[p].pc = "idle")
  =>
    \A c \in last.preCreds : c \in ProvidersOf(models) => c \in creds

\* C19 (commit-time atomicity of add/update/remove): the write of a
\* successful addModel, updateModel or removeModel is what the call yields
\* when run alone on the store as it is at the time of the write, whatever
\* the store held when the call was invoked; so overlapping calls leave the
\* store as the same calls run one after another in the order of their writes.
CommitTimeAtomic ==
  last.outcome = "resolved" =>
    CASE last.op = "addModel" ->
           /\ models = Append(last.preModels,
                              Spread(Omit(last.arg, "apiKey"), [isCustom |-> TRUE]))
           /\ activeId = last.arg.id
      [] last.op = "updateModel" ->
           /\ Len(models) = Len(last.preModels)
           /\ \A i \in 1..Len(models) :
                models[i] = IF last.preModels[i].id = last.id
                            THEN Spread(last.preModels[i], last.arg)
                            ELSE last.preModels[i]
           /\ activeId = last.preActiveId
      [] last.op = "removeModel" ->
           /\ models = SelectSeq(last.preModels, LAMBDA m : m.id # last.id)
           /\ activeId = IF last.preActiveId # last.id THEN last.preActiveId
                         ELSE IF Len(last.preModels) > 0
                              THEN last.preModels[1].id ELSE ""
      [] OTHER -> TRUE

\* an addModel, updateModel or removeModel wrote after an addModel that was
\* invoked later had already written
CommitTimeAtomicWitness ==
  /\ last.op \in {"addModel", "updateModel", "removeModel"}
  /\ last.outcome = "resolved"
  /\ Len(last.calls) = 1
  /\ Len(last.preModels) > Len(last.invModels)
  /\ models # last.preModels

====
